---- MODULE Spec2Model ----
(***************************************************************************)
(* CORD-19 Research Paper Explorer (src/APP.py): a Streamlit script that   *)
(* loads metadata.csv through a memoizing cache, cleans it, draws two      *)
(* aggregate charts and filters titles by a keyword.  Every user           *)
(* interaction reruns the script from its first line.                      *)
(*                                                                         *)
(* Text is a sequence of one-character strings.  A nullable cell is a      *)
(* sequence of length at most one: <<>> is NaN/NaT, <<v>> holds v.         *)
(***************************************************************************)
EXTENDS Integers, Sequences, FiniteSets, TLC

VARIABLES
    file,             \* metadata.csv on disk: [exists, rows]
    cache,            \* st.cache_data entry of load_data: [hit, value, elements]
    pc,               \* position of the running script
    df,               \* module global df (line 40)
    checkbox,         \* widget state of "Show raw data"
    keyword,          \* widget state of the keyword text input
    button,           \* TRUE only in the rerun caused by clicking "Search"
    out,              \* elements rendered by the current run, in order
    papers_per_year,  \* module global (line 66)
    top_journals,     \* module global (line 84)
    results,          \* module global (line 106)
    loads,            \* executions of load_data's body so far
    first             \* the frame the first execution of load_data's body returned

vars == <<file, cache, pc, df, checkbox, keyword, button, out,
          papers_per_year, top_journals, results, loads, first>>

----------------------------------------------------------------------------
(* Bounds of the model *)

MaxRows == 3

MaxAppRows == 2

MaxJournals == 11

MaxBoost == 2

MaxNulls == 2

MaxLoads == 2

(* Program constant: .head(10) at line 84 *)

TopK == 10

----------------------------------------------------------------------------
(* Generic helpers *)

NaN == <<>>

Min(a, b) == IF a < b THEN a ELSE b

SeqsUpTo(S, n) == UNION {[1..k -> S] : k \in 0..n}

Digits == <<"0", "1", "2", "3", "4", "5", "6", "7", "8", "9">>

IsDigit(c) == \E d \in 1..10 : Digits[d] = c

DigitValue(c) == (CHOOSE d \in 1..10 : Digits[d] = c) - 1

RECURSIVE ParseInt(_)
ParseInt(s) ==
    IF s = <<>> THEN 0
    ELSE 10 * ParseInt(SubSeq(s, 1, Len(s) - 1)) + DigitValue(s[Len(s)])

----------------------------------------------------------------------------
(* pandas: frames are [columns, index, data]; data[i] maps column -> cell *)

EmptyFrame == [columns |-> <<>>, index |-> <<>>, data |-> <<>>]

IsEmpty(f) == Len(f.columns) = 0 \/ Len(f.index) = 0

NRows(f) == Len(f.index)

Column(f, c) == [i \in 1..NRows(f) |-> f.data[i][c]]

NaValues == {<<>>, <<"N", "A">>}

ReadCell(text) == IF text \in NaValues THEN NaN ELSE <<text>>

CsvColumns == <<"cord_uid", "title", "abstract", "publish_time", "authors", "journal">>

read_csv(f) ==
    [columns |-> CsvColumns,
     index   |-> [i \in 1..Len(f.rows) |-> i - 1],
     data    |-> [i \in 1..Len(f.rows) |->
                    [c \in {CsvColumns[k] : k \in 1..Len(CsvColumns)} |->
                        ReadCell(f.rows[i][c])]]]

Select(f, cols) ==
    [columns |-> cols,
     index   |-> f.index,
     data    |-> [i \in 1..NRows(f) |->
                    [c \in {cols[k] : k \in 1..Len(cols)} |-> f.data[i][c]]]]

Assign(f, c, col) ==
    [columns |-> IF \E k \in 1..Len(f.columns) : f.columns[k] = c
                 THEN f.columns ELSE Append(f.columns, c),
     index   |-> f.index,
     data    |-> [i \in 1..NRows(f) |->
                    [d \in DOMAIN f.data[i] \cup {c} |->
                        IF d = c THEN col[i] ELSE f.data[i][d]]]]

IsLeap(y) == (y % 4 = 0 /\ y % 100 # 0) \/ y % 400 = 0

DaysInMonth(y, m) ==
    IF m = 2 THEN (IF IsLeap(y) THEN 29 ELSE 28)
    ELSE IF m \in {4, 6, 9, 11} THEN 30 ELSE 31

IsIsoDate(t) ==
    /\ Len(t) = 10
    /\ t[5] = "-" /\ t[8] = "-"
    /\ \A i \in {1, 2, 3, 4, 6, 7, 9, 10} : IsDigit(t[i])
    /\ LET y == ParseInt(SubSeq(t, 1, 4))
           m == ParseInt(SubSeq(t, 6, 7))
           d == ParseInt(SubSeq(t, 9, 10))
       IN  m \in 1..12 /\ d \in 1..DaysInMonth(y, m)

ParseDateCoerce(cell) ==
    IF cell = NaN THEN NaN
    ELSE IF IsIsoDate(cell[1])
         THEN << [year  |-> ParseInt(SubSeq(cell[1], 1, 4)),
                  month |-> ParseInt(SubSeq(cell[1], 6, 7)),
                  day   |-> ParseInt(SubSeq(cell[1], 9, 10))] >>
         ELSE NaN

to_datetime(col) == [i \in DOMAIN col |-> ParseDateCoerce(col[i])]

YearOf(cell) == IF cell = NaN THEN NaN ELSE <<cell[1].year>>

dt_year(col) == [i \in DOMAIN col |-> YearOf(col[i])]

RECURSIVE KeptPositions(_, _, _)
KeptPositions(f, subset, n) ==
    IF n = 0 THEN <<>>
    ELSE LET rest == KeptPositions(f, subset, n - 1)
         IN  IF \E c \in subset : f.data[n][c] = NaN THEN rest ELSE Append(rest, n)

dropna(f, subset) ==
    LET keep == KeptPositions(f, subset, NRows(f))
    IN  [columns |-> f.columns,
         index   |-> [k \in 1..Len(keep) |-> f.index[keep[k]]],
         data    |-> [k \in 1..Len(keep) |-> f.data[keep[k]]]]

head(s, n) == SubSeq(s, 1, Min(n, Len(s)))

Filter(f, mask) ==
    LET keep == SelectSeq([i \in 1..NRows(f) |-> i], LAMBDA i : mask[i])
    IN  [columns |-> f.columns,
         index   |-> [k \in 1..Len(keep) |-> f.index[keep[k]]],
         data    |-> [k \in 1..Len(keep) |-> f.data[keep[k]]]]

(* Series.value_counts(): NaN dropped, one entry per distinct value in order *)
(* of first appearance, then sorted by count descending.                     *)

DropNaCells(col) == SelectSeq(col, LAMBDA c : c # NaN)

RECURSIVE Uniques(_, _)
Uniques(col, n) ==
    IF n = 0 THEN <<>>
    ELSE LET rest == Uniques(col, n - 1)
         IN  IF \E k \in 1..Len(rest) : rest[k] = col[n]
             THEN rest ELSE Append(rest, col[n])

GroupCounts(col) ==
    LET u == Uniques(col, Len(col))
    IN  [k \in 1..Len(u) |->
            [value |-> u[k],
             count |-> Cardinality({i \in 1..Len(col) : col[i] = u[k]})]]

RECURSIVE InsertDesc(_, _)
InsertDesc(s, e) ==
    IF s = <<>> THEN <<e>>
    ELSE IF Head(s).count >= e.count
         THEN <<Head(s)>> \o InsertDesc(Tail(s), e)
         ELSE <<e>> \o s

RECURSIVE SortByCountDesc(_, _)
SortByCountDesc(s, n) ==
    IF n = 0 THEN <<>> ELSE InsertDesc(SortByCountDesc(s, n - 1), s[n])

value_counts(col) ==
    LET g == GroupCounts(DropNaCells(col)) IN SortByCountDesc(g, Len(g))

(* Series.sort_index(): ascending by value, NaN last *)

IndexBefore(a, b) == a # NaN /\ (b = NaN \/ a[1] < b[1])

RECURSIVE InsertAsc(_, _)
InsertAsc(s, e) ==
    IF s = <<>> THEN <<e>>
    ELSE IF IndexBefore(e.value, Head(s).value)
         THEN <<e>> \o s
         ELSE <<Head(s)>> \o InsertAsc(Tail(s), e)

RECURSIVE SortAsc(_, _)
SortAsc(s, n) ==
    IF n = 0 THEN <<>> ELSE InsertAsc(SortAsc(s, n - 1), s[n])

sort_index(s) == SortAsc(s, Len(s))

----------------------------------------------------------------------------
(* Series.str.contains(pat, case=False, na=False): regex defaults to True,   *)
(* so pat is compiled by Python's re with IGNORECASE and searched in every   *)
(* non-null cell.  Pattern alphabet: letters are literals, "." is any        *)
(* character, "*" repeats the previous atom, "(" opens a group (never closed *)
(* over this alphabet).                                                      *)

ToLower(c) == IF c = "A" THEN "a" ELSE IF c = "B" THEN "b" ELSE IF c = "C" THEN "c" ELSE c

re_error(pat) ==
    \E i \in 1..Len(pat) :
        \/ pat[i] = "("
        \/ pat[i] = "*" /\ (i = 1 \/ pat[i - 1] = "*")

AtomMatch(a, c) == a = "." \/ ToLower(a) = ToLower(c)

RECURSIVE MatchHere(_, _, _, _)
MatchHere(pat, i, t, j) ==
    IF i > Len(pat) THEN TRUE
    ELSE IF i < Len(pat) /\ pat[i + 1] = "*"
         THEN \E k \in 0..(Len(t) - j + 1) :
                 /\ \A m \in j..(j + k - 1) : AtomMatch(pat[i], t[m])
                 /\ MatchHere(pat, i + 2, t, j + k)
         ELSE /\ j <= Len(t)
              /\ AtomMatch(pat[i], t[j])
              /\ MatchHere(pat, i + 1, t, j + 1)

re_search(pat, t) == \E j \in 1..(Len(t) + 1) : MatchHere(pat, 1, t, j)

str_contains(col, pat) ==
    [i \in DOMAIN col |-> IF col[i] = NaN THEN FALSE ELSE re_search(pat, col[i][1])]

----------------------------------------------------------------------------
(* load_data, lines 18-38 *)

CleanColumns == <<"title", "abstract", "publish_time", "authors", "journal">>

load_data_title_only(f) ==
    IF ~f.exists
    THEN [value |-> EmptyFrame, elements |-> <<"error">>]
    ELSE LET a == Select(read_csv(f), CleanColumns)
             b == Assign(a, "publish_time", to_datetime(Column(a, "publish_time")))
             c == Assign(b, "year", dt_year(Column(b, "publish_time")))
         IN  [value |-> dropna(c, {"title"}), elements |-> <<>>]

load_data_dropna_any(f) ==
    IF ~f.exists
    THEN [value |-> EmptyFrame, elements |-> <<"error">>]
    ELSE LET a == Select(read_csv(f), CleanColumns)
             b == Assign(a, "publish_time", to_datetime(Column(a, "publish_time")))
             c == Assign(b, "year", dt_year(Column(b, "publish_time")))
         IN  [value |-> dropna(c, {c.columns[k] : k \in 1..Len(c.columns)}),
              elements |-> <<>>]

load_data(f) ==
    IF ~f.exists
    THEN [value |-> EmptyFrame, elements |-> <<"error">>]
    ELSE LET a == Select(read_csv(f), CleanColumns)
             b == Assign(a, "publish_time", to_datetime(Column(a, "publish_time")))
             c == Assign(b, "year", dt_year(Column(b, "publish_time")))
         IN  [value |-> dropna(c, {"title", "abstract"}), elements |-> <<>>]

(* st.cache_data, line 17: the entry for the argument-less call *)

CacheHitNever(c) == FALSE

CacheHit(c) == c.hit

(* line 104: if st.button("Search") and keyword *)

SearchTriggeredNoButton(b, kw) == kw # <<>>

SearchTriggered(b, kw) == b /\ kw # <<>>

(* line 43: if not df.empty *)

DataLoadedAlways(f) == TRUE

DataLoaded(f) == ~IsEmpty(f)

HasColumn(f, c) == \E k \in 1..Len(f.columns) : f.columns[k] = c

(* line 66 *)

PapersPerYearUnsorted(f) == value_counts(Column(f, "year"))

PapersPerYearOf(f) == sort_index(value_counts(Column(f, "year")))

(* line 84 *)

TopJournalsHeadFirst(f) ==
    LET g == head(GroupCounts(DropNaCells(Column(f, "journal"))), TopK)
    IN  SortByCountDesc(g, Len(g))

TopJournalsKeepNa(f) ==
    LET g == GroupCounts(Column(f, "journal"))
    IN  head(SortByCountDesc(g, Len(g)), TopK)

TopJournalsOf(f) == head(value_counts(Column(f, "journal")), TopK)

(* line 106 *)

SearchResults(f, kw) == Filter(f, str_contains(Column(f, "title"), kw))

----------------------------------------------------------------------------
(* Input families *)

Row(t, a, p, j) ==
    [cord_uid |-> <<"u">>, title |-> t, abstract |-> a, publish_time |-> p,
     authors |-> <<"A", ".", "B">>, journal |-> j]

Date2021 == <<"2", "0", "2", "1", "-", "0", "3", "-", "0", "1">>

Date2019 == <<"2", "0", "1", "9", "-", "1", "2", "-", "3", "1">>

DateBadDay == <<"2", "0", "2", "1", "-", "0", "2", "-", "2", "9">>

NotADate == <<"n", "o", "t", " ", "a", " ", "d", "a", "t", "e">>

JournalName(i) == <<"J", Digits[(i \div 10) + 1], Digits[(i % 10) + 1]>>

MissingFile == [exists |-> FALSE, rows |-> <<>>]

FileOf(rows) == [exists |-> TRUE, rows |-> rows]

(* the end-to-end scenario of the specification, section 8 *)
SampleFile ==
    FileOf(<< Row(<<"m", "R", "N", "A", " ", "V", "a", "c", "c", "i", "n", "e">>,
                  <<"x">>, Date2021, <<>>),
              Row(<<"T", "r", "a", "n", "s", "m", "i", "s", "s", "i", "o", "n">>,
                  <<"x">>, NotADate, <<>>) >>)

AppTitles == {<<>>, <<"a", "B">>, <<"a", ".", "c">>}

AppRows == {Row(t, <<"x">>, Date2021, JournalName(1)) : t \in AppTitles}

AppFiles == {MissingFile} \cup {FileOf(r) : r \in SeqsUpTo(AppRows, MaxAppRows)}

Keywords ==
    {<<>>, <<"a", "b">>, <<"A", "B">>, <<"c">>, <<".">>, <<"(">>, <<"*">>, <<"b", "*">>}

DataRows ==
    {Row(<<"a", "B">>, <<"x">>, p, JournalName(1)) :
        p \in {<<>>, Date2021, Date2019, DateBadDay, NotADate}}
    \cup {Row(<<>>, <<"x">>, Date2021, JournalName(1)),
          Row(<<"a", "B">>, <<>>, Date2019, JournalName(2)),
          Row(<<"a", "B">>, <<"N", "A">>, NotADate, <<>>),
          Row(<<>>, <<>>, <<>>, <<>>)}

DataFiles == {MissingFile} \cup {FileOf(r) : r \in SeqsUpTo(DataRows, MaxRows)}

JournalRow(j) == Row(<<"a", "B">>, <<"x">>, Date2021, j)

JournalCell(i) == IF i = 0 THEN <<>> ELSE JournalName(i)

JournalFiles ==
    {FileOf([i \in 1..k |-> JournalRow(<<>>)]
            \o [i \in 1..n |-> JournalRow(JournalName(i))]
            \o [i \in 1..e |-> JournalRow(JournalCell(a))]) :
        k \in 0..MaxNulls, n \in 0..MaxJournals, e \in 0..MaxBoost, a \in 0..MaxJournals}

----------------------------------------------------------------------------
(* State machine *)

InitWith(files) ==
    /\ file \in files
    /\ cache = [hit |-> FALSE, value |-> EmptyFrame, elements |-> <<>>]
    /\ pc = "load"
    /\ df = EmptyFrame
    /\ checkbox = FALSE
    /\ keyword = <<>>
    /\ button = FALSE
    /\ out = <<>>
    /\ papers_per_year = <<>>
    /\ top_journals = <<>>
    /\ results = EmptyFrame
    /\ loads = 0
    /\ first = EmptyFrame

Init == InitWith(AppFiles)

InitData == InitWith(DataFiles)

InitJournals == InitWith(JournalFiles)

(* line 40: df = load_data(), through st.cache_data (line 17); the elements *)
(* the body rendered are stored with the value and replayed on a hit.       *)
CallLoadData ==
    /\ pc = "load"
    /\ IF CacheHit(cache)
       THEN /\ df' = cache.value
            /\ out' = out \o cache.elements
            /\ UNCHANGED <<cache, loads, first>>
       ELSE LET r == load_data(file)
            IN  /\ df' = r.value
                /\ out' = out \o r.elements
                /\ cache' = [hit |-> TRUE, value |-> r.value, elements |-> r.elements]
                /\ loads' = Min(loads + 1, MaxLoads)
                /\ first' = IF loads = 0 THEN r.value ELSE first
    /\ pc' = "guard"
    /\ UNCHANGED <<file, checkbox, keyword, button, papers_per_year, top_journals, results>>

(* lines 43-50 *)
Guard ==
    /\ pc = "guard"
    /\ IF DataLoaded(df)
       THEN /\ pc' = "raw"
            /\ out' = Append(out, "title")
       ELSE /\ pc' = "footer"
            /\ out' = out
    /\ UNCHANGED <<file, cache, df, checkbox, keyword, button,
                   papers_per_year, top_journals, results, loads, first>>

(* lines 53-56 *)
RawData ==
    /\ pc = "raw"
    /\ out' = out \o <<"checkbox">> \o
              (IF checkbox THEN <<"raw_table", "raw_total">> ELSE <<>>)
    /\ pc' = "years"
    /\ UNCHANGED <<file, cache, df, checkbox, keyword, button,
                   papers_per_year, top_journals, results, loads, first>>

(* lines 60-78 *)
PapersPerYear ==
    /\ pc = "years"
    /\ IF HasColumn(df, "year")
       THEN /\ papers_per_year' = PapersPerYearOf(df)
            /\ out' = Append(out, "years_plot")
            /\ pc' = "journals"
       ELSE /\ papers_per_year' = papers_per_year
            /\ out' = Append(out, "exception")
            /\ pc' = "crashed"
    /\ UNCHANGED <<file, cache, df, checkbox, keyword, button,
                   top_journals, results, loads, first>>

(* lines 81-94 *)
TopJournals ==
    /\ pc = "journals"
    /\ IF HasColumn(df, "journal")
       THEN /\ top_journals' = TopJournalsOf(df)
            /\ out' = Append(out, "journals_plot")
            /\ pc' = "search"
       ELSE /\ top_journals' = top_journals
            /\ out' = Append(out, "exception")
            /\ pc' = "crashed"
    /\ UNCHANGED <<file, cache, df, checkbox, keyword, button,
                   papers_per_year, results, loads, first>>

(* lines 97-112; an invalid pattern makes str.contains raise re.error, which *)
(* ends the run at line 106.                                                 *)
SearchBlock ==
    /\ pc = "search"
    /\ IF SearchTriggered(button, keyword)
       THEN IF ~HasColumn(df, "title") \/ re_error(keyword)
            THEN /\ results' = results
                 /\ out' = out \o <<"text_input", "button", "exception">>
                 /\ pc' = "crashed"
            ELSE /\ results' = SearchResults(df, keyword)
                 /\ out' = out \o <<"text_input", "button">> \o
                           (IF ~IsEmpty(results') THEN <<"success", "results_table">>
                                                  ELSE <<"warning">>)
                 /\ pc' = "footer"
       ELSE /\ results' = results
            /\ out' = out \o <<"text_input", "button">>
            /\ pc' = "footer"
    /\ UNCHANGED <<file, cache, df, checkbox, keyword, button,
                   papers_per_year, top_journals, loads, first>>

(* lines 116-118 *)
Footer ==
    /\ pc = "footer"
    /\ out' = Append(out, "footer")
    /\ pc' = "done"
    /\ UNCHANGED <<file, cache, df, checkbox, keyword, button,
                   papers_per_year, top_journals, results, loads, first>>

Run == CallLoadData \/ Guard \/ RawData \/ PapersPerYear \/ TopJournals \/ SearchBlock \/ Footer

(* A widget interaction starts a new run of the script in a fresh namespace; *)
(* the cache and the other widgets' values are kept.  Only a widget the     *)
(* last run rendered can be used.                                           *)
Idle == pc \in {"done", "crashed"}

Rendered(tag) == \E k \in 1..Len(out) : out[k] = tag

Rerun ==
    /\ pc' = "load"
    /\ df' = EmptyFrame
    /\ out' = <<>>
    /\ papers_per_year' = <<>>
    /\ top_journals' = <<>>
    /\ results' = EmptyFrame
    /\ UNCHANGED <<file, cache, loads, first>>

(* line 53 *)
ToggleRawData ==
    /\ Idle
    /\ Rendered("checkbox")
    /\ checkbox' = ~checkbox
    /\ button' = FALSE
    /\ keyword' = keyword
    /\ Rerun

(* lines 98-101 *)
EditKeyword ==
    /\ Idle
    /\ Rendered("text_input")
    /\ \E kw \in Keywords \ {keyword} : keyword' = kw
    /\ button' = FALSE
    /\ checkbox' = checkbox
    /\ Rerun

(* line 104 *)
ClickSearch ==
    /\ Idle
    /\ Rendered("button")
    /\ button' = TRUE
    /\ UNCHANGED <<checkbox, keyword>>
    /\ Rerun

(* A page reload opens a new session: widgets start from their defaults, *)
(* the st.cache_data entry is shared by all sessions of the process.     *)
Refresh ==
    /\ Idle
    /\ checkbox' = FALSE
    /\ keyword' = <<>>
    /\ button' = FALSE
    /\ Rerun

(* The environment: metadata.csv is read only inside load_data (line 23), so *)
(* a change of the file between two runs stands for a change at any time.   *)
DeleteFile ==
    /\ Idle
    /\ file.exists
    /\ file' = MissingFile
    /\ UNCHANGED <<cache, pc, df, checkbox, keyword, button, out,
                   papers_per_year, top_journals, results, loads, first>>

WriteFile ==
    /\ Idle
    /\ file # SampleFile
    /\ file' = SampleFile
    /\ UNCHANGED <<cache, pc, df, checkbox, keyword, button, out,
                   papers_per_year, top_journals, results, loads, first>>

Next ==
    Run \/ ToggleRawData \/ EditKeyword \/ ClickSearch \/ Refresh \/ DeleteFile \/ WriteFile

Spec == Init /\ [][Next]_vars

SpecData == InitData /\ [][Run]_vars

SpecJournals == InitJournals /\ [][Run]_vars

----------------------------------------------------------------------------
(* Properties *)

RECURSIVE Sum(_, _)
Sum(f, n) == IF n = 0 THEN 0 ELSE f[n] + Sum(f, n - 1)

IsNull(text) == text \in NaValues

LiteralContains(t, kw) ==
    \E j \in 1..(Len(t) - Len(kw) + 1) :
        \A i \in 1..Len(kw) : ToLower(t[j + i - 1]) = ToLower(kw[i])

LiteralMatches(f, kw) ==
    Filter(f, [i \in 1..NRows(f) |->
                 f.data[i]["title"] # NaN /\ LiteralContains(f.data[i]["title"][1], kw)])

SearchShown == Rendered("success") \/ Rendered("warning") \/ Rendered("results_table")

\* C1: whenever a search has produced its output, the result is exactly the rows
\* of the dataset whose title contains the keyword as a literal substring,
\* ignoring case, in dataset order.
C1_SearchIsLiteralSubstring ==
    SearchShown => results = LiteralMatches(df, keyword)

\* C4: no run of the script ends in an exception, whatever keyword was
\* entered when the search was triggered.
C4_SearchNeverRaises ==
    ~Rendered("exception") /\ pc # "crashed"

\* C9: search output (a result set or the "no results" message) exists in a
\* run only if the Search trigger fired in that run and the keyword is
\* non-empty; with an empty keyword or without the trigger the result is empty.
C9_SearchOnlyOnTrigger ==
    /\ (SearchShown \/ results # EmptyFrame) => (button /\ keyword # <<>>)
    /\ (keyword = <<>> \/ ~button) => (results = EmptyFrame /\ ~SearchShown)

C9_Witness ==
    /\ pc = "done" /\ button /\ keyword = <<>> /\ DataLoaded(df)
    /\ Rendered("button") /\ ~SearchShown

NoSectionRan ==
    /\ \A t \in {"title", "checkbox", "raw_table", "raw_total", "years_plot",
                 "journals_plot", "text_input", "button", "success", "warning",
                 "results_table", "exception"} : ~Rendered(t)
    /\ papers_per_year = <<>>
    /\ top_journals = <<>>
    /\ results = EmptyFrame

\* C3: a load with metadata.csv missing yields the empty frame and the error
\* message instead of raising; on that frame no preview, aggregation or
\* search is executed, nothing raises, and the run goes on to the footer.
C3_MissingFileDegrades ==
    /\ [][(pc = "load" /\ ~cache.hit /\ ~file.exists)
            => (pc' = "guard" /\ df' = EmptyFrame /\ out' = <<"error">>)]_vars
    /\ [](pc # "load" /\ df = EmptyFrame
            => /\ Rendered("error")
               /\ pc \in {"guard", "footer", "done"}
               /\ NoSectionRan
               /\ (pc = "done" <=> Rendered("footer"))
               /\ (pc # "done" => ENABLED Run))

C3_Witness ==
    pc = "done" /\ df = EmptyFrame /\ loads = 1 /\ out = <<"error", "footer">>

\* C8: load_data's body runs at most once, and in every run after any
\* interactions, page reloads and changes of the file the dataset is the
\* frame the first load produced.
C8_DatasetLoadedOnce ==
    /\ loads <= 1
    /\ cache.hit => cache.value = first
    /\ pc # "load" => df = first

C8_Witness ==
    /\ pc = "done" /\ loads = 1 /\ ~file.exists /\ checkbox /\ button
    /\ Rendered("raw_table") /\ Rendered("success") /\ NRows(df) = 2

RowKept(i) == \E k \in 1..NRows(df) : df.index[k] = i - 1

Complete(i) == ~IsNull(file.rows[i].title) /\ ~IsNull(file.rows[i].abstract)

\* C5: the cleaned dataset is exactly the subsequence of the file's rows whose
\* title and abstract are both non-null, unchanged and in file order.
C5_CleanIsSubsequence ==
    (pc # "load" /\ file.exists) =>
        /\ \A k \in 1..NRows(df) :
              /\ df.data[k]["title"] # NaN /\ df.data[k]["abstract"] # NaN
              /\ df.index[k] \in 0..(Len(file.rows) - 1)
              /\ \A c \in {"title", "abstract", "authors", "journal"} :
                    df.data[k][c] = (IF IsNull(file.rows[df.index[k] + 1][c])
                                     THEN NaN ELSE <<file.rows[df.index[k] + 1][c]>>)
        /\ \A k, l \in 1..NRows(df) : k < l => df.index[k] < df.index[l]
        /\ \A i \in 1..Len(file.rows) : Complete(i) <=> RowKept(i)

C5_Witness ==
    /\ pc = "done" /\ Len(file.rows) = 3 /\ df.index = <<0, 2>>
    /\ IsNull(file.rows[2].abstract) /\ ~IsNull(file.rows[2].title)

\* C10: in every cleaned record year is present exactly when publish_time is,
\* and then equals its year component; an unparseable or missing publish_time
\* gives a null year, raises nothing and does not remove the row.
C10_YearFollowsPublishTime ==
    (pc # "load" /\ file.exists) =>
        /\ ~Rendered("exception")
        /\ \A k \in 1..NRows(df) :
              LET r   == df.data[k]
                  raw == file.rows[df.index[k] + 1].publish_time
              IN  /\ r["year"] # NaN <=> r["publish_time"] # NaN
                  /\ r["publish_time"] # NaN => r["year"] = <<r["publish_time"][1].year>>
                  /\ raw \in {<<>>, NotADate, DateBadDay} => r["publish_time"] = NaN
                  /\ raw = Date2021 => r["year"] = <<2021>>
                  /\ raw = Date2019 => r["year"] = <<2019>>
        /\ \A i \in 1..Len(file.rows) : Complete(i) => RowKept(i)

C10_Witness ==
    /\ pc = "done" /\ NRows(df) = 3
    /\ file.rows[1].publish_time = NotADate /\ df.data[1]["year"] = NaN
    /\ file.rows[2].publish_time = Date2021 /\ df.data[2]["year"] = <<2021>>
    /\ file.rows[3].publish_time = DateBadDay /\ df.data[3]["publish_time"] = NaN

YearCells == Column(df, "year")

\* C6: papers_per_year is strictly ascending by year (so no year twice), has
\* no entry for a null year, and its counts add up to the number of cleaned
\* rows with a year.
C6_PapersPerYearSorted ==
    Rendered("years_plot") =>
        /\ \A k \in 1..Len(papers_per_year) : papers_per_year[k].value # NaN
        /\ \A k, l \in 1..Len(papers_per_year) :
              k < l => papers_per_year[k].value[1] < papers_per_year[l].value[1]
        /\ Sum([k \in 1..Len(papers_per_year) |-> papers_per_year[k].count],
               Len(papers_per_year))
             = Cardinality({i \in 1..NRows(df) : YearCells[i] # NaN})

C6_Witness ==
    /\ Rendered("years_plot") /\ NRows(df) = 3
    /\ YearCells = << <<2021>>, NaN, <<2019>> >>
    /\ Len(papers_per_year) = 2

JournalCells == Column(df, "journal")

JournalCount(v) == Cardinality({i \in 1..NRows(df) : JournalCells[i] = v})

Listed(v) == \E k \in 1..Len(top_journals) : top_journals[k].value = v

NullJournals == JournalCount(NaN)

\* C7: top_journals has at most 10 entries, is sorted by count descending,
\* lists each journal once with its true count in the cleaned dataset, and no
\* journal left out has a strictly higher count than a listed one.
C7_TopJournalsTopTen ==
    Rendered("journals_plot") =>
        /\ Len(top_journals) <= 10
        /\ \A k, l \in 1..Len(top_journals) :
              k < l => /\ top_journals[k].count >= top_journals[l].count
                       /\ top_journals[k].value # top_journals[l].value
        /\ \A k \in 1..Len(top_journals) :
              /\ top_journals[k].value # NaN
              /\ top_journals[k].count = JournalCount(top_journals[k].value)
        /\ \A i \in 1..NRows(df) :
              (JournalCells[i] # NaN /\ ~Listed(JournalCells[i])) =>
                  \A k \in 1..Len(top_journals) :
                      JournalCount(JournalCells[i]) <= top_journals[k].count

C7_Witness ==
    /\ Rendered("journals_plot") /\ Len(top_journals) = 10
    /\ \E i \in 1..NRows(df) : JournalCells[i] # NaN /\ ~Listed(JournalCells[i])
    /\ top_journals[1].count > top_journals[10].count
    /\ top_journals[1].value = <<JournalName(11)>>

DistinctJournals == {JournalCells[i] : i \in 1..NRows(df)} \ {NaN}

\* C2 as stated: the records without a journal form a group of their own,
\* listed with their count whenever that count ranks among the ten highest.
C2_NullJournalIsAGroup ==
    (/\ Rendered("journals_plot")
     /\ NullJournals > 0
     /\ Cardinality({v \in DistinctJournals : JournalCount(v) >= NullJournals}) < 10)
        => \E k \in 1..Len(top_journals) :
              top_journals[k].value = NaN /\ top_journals[k].count = NullJournals

\* C2 amended: records without a journal are left out of the grouping: no
\* entry of top_journals stands for the missing journal, whatever its count,
\* and when at most 10 journals occur the listed counts add up to the number
\* of records that have a journal.
C2_NullJournalExcluded ==
    Rendered("journals_plot") =>
        /\ \A k \in 1..Len(top_journals) : top_journals[k].value # NaN
        /\ Cardinality(DistinctJournals) <= 10 =>
              Sum([k \in 1..Len(top_journals) |-> top_journals[k].count],
                  Len(top_journals))
                = NRows(df) - NullJournals

C2_Witness ==
    /\ Rendered("journals_plot") /\ NullJournals >= 2
    /\ Len(top_journals) \in 1..9
    /\ top_journals[1].count < NullJournals

====
